---- MODULE Spec2Model ----
(***************************************************************************)
(* Model of src/Library.py: the Library class (catalog, available_book_ids, *)
(* issued_records), its two flat files, and the menu loop of main().        *)
(*                                                                          *)
(* Strings are sequences of one-character strings, so that strip, upper,    *)
(* title, split and join are computed as Python computes them.  A file is   *)
(* a record [exists, lines]; every line carries its terminating "\n".       *)
(* issued_records is an insertion-ordered dict: a sequence of entries       *)
(* [sid, books] with pairwise distinct sid.                                 *)
(***************************************************************************)
EXTENDS Integers, Sequences, FiniteSets, TLC

VARIABLES catalog, available_book_ids, issued_records,
          catalogFile, issuedFile, pc, out, shown, runs

vars == <<catalog, available_book_ids, issued_records,
          catalogFile, issuedFile, pc, out, shown, runs>>

\* ------------------------------------------------------------------------
\* Bounds of the model
\* ------------------------------------------------------------------------
MaxRuns == 2
MaxRetry == 1

\* ------------------------------------------------------------------------
\* Python str methods
\* ------------------------------------------------------------------------
NL == "\n"

IsSpace(c) == c \in {" ", NL}

LowerLetters == {"b", "s", "p", "g"}
UpperLetters == {"B", "S", "P", "G"}

UpperChar(c) ==
  CASE c = "b" -> "B" [] c = "s" -> "S" [] c = "p" -> "P" [] c = "g" -> "G"
    [] OTHER -> c

LowerChar(c) ==
  CASE c = "B" -> "b" [] c = "S" -> "s" [] c = "P" -> "p" [] c = "G" -> "g"
    [] OTHER -> c

IsCased(c) == c \in LowerLetters \cup UpperLetters

RECURSIVE lstrip(_)
lstrip(s) ==
  IF s # <<>> /\ IsSpace(Head(s)) THEN lstrip(Tail(s)) ELSE s

RECURSIVE rstrip(_)
rstrip(s) ==
  IF s # <<>> /\ IsSpace(s[Len(s)]) THEN rstrip(SubSeq(s, 1, Len(s) - 1)) ELSE s

strip(s) == rstrip(lstrip(s))

upper(s) == [i \in 1..Len(s) |-> UpperChar(s[i])]

\* str.title(): a cased character is upper-cased when it follows an uncased
\* character (or starts the string) and lower-cased otherwise.
title(s) ==
  [i \in 1..Len(s) |->
     IF i = 1 \/ ~IsCased(s[i - 1]) THEN UpperChar(s[i]) ELSE LowerChar(s[i])]

\* str.split(sep) with a one-character separator: always at least one part.
RECURSIVE split(_, _)
split(s, sep) ==
  IF \A i \in 1..Len(s) : s[i] # sep
  THEN <<s>>
  ELSE LET k == CHOOSE i \in 1..Len(s) :
                  s[i] = sep /\ \A j \in 1..(i - 1) : s[j] # sep
       IN  <<SubSeq(s, 1, k - 1)>> \o split(SubSeq(s, k + 1, Len(s)), sep)

\* sep.join(parts)
RECURSIVE join(_, _)
join(parts, sep) ==
  IF parts = <<>> THEN <<>>
  ELSE IF Len(parts) = 1 THEN parts[1]
  ELSE parts[1] \o sep \o join(Tail(parts), sep)

\* ------------------------------------------------------------------------
\* Python containers
\* ------------------------------------------------------------------------
Range(f) == {f[i] : i \in DOMAIN f}

\* The orders in which iterating a Python set may yield its elements.
Orderings(S) ==
  {o \in [1..Cardinality(S) -> S] : \A x \in S : \E i \in DOMAIN o : o[i] = x}

\* dict operations on the insertion-ordered sequence of entries
Keys(recs) == {recs[i].sid : i \in DOMAIN recs}

HasKey(recs, s) == \E i \in DOMAIN recs : recs[i].sid = s

Get(recs, s) == recs[CHOOSE i \in DOMAIN recs : recs[i].sid = s].books

Values(recs) == {recs[i].books : i \in DOMAIN recs}

\* records[s] = v : replaces in place, or appends a new key
DictSet(recs, s, v) ==
  IF HasKey(recs, s)
  THEN [i \in DOMAIN recs |->
          IF recs[i].sid = s THEN [sid |-> s, books |-> v] ELSE recs[i]]
  ELSE Append(recs, [sid |-> s, books |-> v])

\* del records[s]
DictDel(recs, s) == SelectSeq(recs, LAMBDA e : e.sid # s)

\* ------------------------------------------------------------------------
\* Files
\* ------------------------------------------------------------------------
NoFile == [exists |-> FALSE, lines |-> <<>>]

FileOf(ls) == [exists |-> TRUE, lines |-> ls]

\* a variant that also takes a line of two fields, with no author
ParseCatalogLine_two_fields(line) ==
  LET parts == split(strip(line), "|")
  IN  IF Len(parts) \in {2, 3}
      THEN <<[id |-> strip(parts[1]), title |-> strip(parts[2]),
              author |-> IF Len(parts) = 3 THEN strip(parts[3]) ELSE <<>>]>>
      ELSE <<>>

\* Library._load_catalog: one book per line that splits into 3 fields
ParseCatalogLine(line) ==
  LET parts == split(strip(line), "|")
  IN  IF Len(parts) = 3
      THEN <<[id |-> strip(parts[1]), title |-> strip(parts[2]),
              author |-> strip(parts[3])]>>
      ELSE <<>>

RECURSIVE LoadCatalogLines(_)
LoadCatalogLines(ls) ==
  IF ls = <<>> THEN <<>>
  ELSE ParseCatalogLine(Head(ls)) \o LoadCatalogLines(Tail(ls))

load_catalog(f) == IF ~f.exists THEN <<>> ELSE LoadCatalogLines(f.lines)

\* Library._save_catalog: the text written by the for loop
CatalogLine(book) ==
  book.id \o <<"|">> \o book.title \o <<"|">> \o book.author \o <<NL>>

\* a variant that writes the newest book only
CatalogLines_newest_only(cat) ==
  IF cat = <<>> THEN <<>> ELSE <<CatalogLine(cat[Len(cat)])>>

CatalogLines(cat) == [i \in DOMAIN cat |-> CatalogLine(cat[i])]

\* Library._load_issued_records: the body of the for loop, for one line
LoadIssuedLine(records, line) ==
  LET parts == split(strip(line), ":")
  IN  IF Len(parts) = 2
      THEN DictSet(records, strip(parts[1]), Range(split(parts[2], ",")))
      ELSE records

RECURSIVE LoadIssuedLines(_, _)
LoadIssuedLines(records, ls) ==
  IF ls = <<>> THEN records
  ELSE LoadIssuedLines(LoadIssuedLine(records, Head(ls)), Tail(ls))

load_issued_records(f) ==
  IF ~f.exists THEN <<>> ELSE LoadIssuedLines(<<>>, f.lines)

\* Library._save_issued_records: one line per dict item; order is the order
\* in which ','.join iterates the set of book ids.
IssuedLine(student_id, order) ==
  student_id \o <<":", " ">> \o join(order, <<",">>) \o <<NL>>

\* every text the for loop can write for the dict recs
RECURSIVE IssuedLinesChoices(_)
IssuedLinesChoices(recs) ==
  IF recs = <<>> THEN {<<>>}
  ELSE {<<IssuedLine(Head(recs).sid, o)>> \o rest :
          o \in Orderings(Head(recs).books),
          rest \in IssuedLinesChoices(Tail(recs))}

\* ------------------------------------------------------------------------
\* Queries of the handlers
\* ------------------------------------------------------------------------
\* Variants of the handlers' tests and updates, each with one slip
id_exists_unchecked(ids, book_id) == FALSE

add_id_forgotten(ids, book_id) == ids

book_exists_unchecked(cat, book_id) == TRUE

is_issued_to_self(recs, student_id, book_id) ==
  HasKey(recs, student_id) /\ book_id \in Get(recs, student_id)

issued_to_anyone(recs, student_id, book_id) ==
  \E i \in DOMAIN recs : book_id \in recs[i].books

is_issued_unchecked(recs, student_id, book_id) == FALSE

return_records_drop_entry(recs, student_id, book_id) == DictDel(recs, student_id)

return_records_no_cleanup(recs, student_id, book_id) ==
  DictSet(recs, student_id, Get(recs, student_id) \ {book_id})

append_book_in_front(cat, book) == <<book>> \o cat

available_books_unfiltered(cat, recs) == cat

issued_book_ids_of_first(recs) == IF recs = <<>> THEN {} ELSE recs[1].books

issue_records_rebuilt(recs, student_id, book_id) ==
  <<[sid |-> student_id, books |-> {book_id}]>>

\* a variant that looks at the first book only
CatalogIds_of_first(cat) == IF cat = <<>> THEN {} ELSE {cat[1].id}

CatalogIds(cat) == {cat[i].id : i \in DOMAIN cat}

\* add_book: self.catalog.append(new_book)
append_book(cat, book) == Append(cat, book)

\* issue_book: any(book['id'] == book_id for book in self.catalog)
book_exists(cat, book_id) == \E i \in DOMAIN cat : cat[i].id = book_id

\* add_book: book_id in self.available_book_ids
id_exists(ids, book_id) == book_id \in ids

\* add_book: self.available_book_ids.add(book_id)
add_id(ids, book_id) == ids \cup {book_id}

\* issue_book: the loop over self.issued_records.values()
is_issued(recs, student_id, book_id) ==
  \E i \in DOMAIN recs : book_id \in recs[i].books

\* return_book: book_id in self.issued_records[student_id]
issued_to(recs, student_id, book_id) == book_id \in Get(recs, student_id)

\* display_available_books: set().union(*self.issued_records.values())
issued_book_ids(recs) == UNION Values(recs)

\* display_available_books: the list comprehension
available_books(cat, recs) ==
  SelectSeq(cat, LAMBDA book : book.id \notin issued_book_ids(recs))

\* issue_book: the two statements that issue the book
issue_records(recs, student_id, book_id) ==
  LET withKey == IF HasKey(recs, student_id) THEN recs
                 ELSE DictSet(recs, student_id, {})
  IN  DictSet(withKey, student_id, Get(withKey, student_id) \cup {book_id})

\* return_book: remove the id, then clean up an empty entry
return_records(recs, student_id, book_id) ==
  LET removed == DictSet(recs, student_id, Get(recs, student_id) \ {book_id})
  IN  IF Get(removed, student_id) = {} THEN DictDel(removed, student_id)
      ELSE removed

\* ------------------------------------------------------------------------
\* What the user may type at the prompts
\* ------------------------------------------------------------------------
BookIdInputs == {<<"b", "1">>, <<" ", "B", "2", " ">>}

StudentIdInputs == {<<"s", "1">>, <<"S", "2", " ">>}

TitleInputs == {<<" ", "p", "G", " ", "g">>}

AuthorInputs == {<<"g", " ", "b">>}

\* ------------------------------------------------------------------------
\* Saving: the try/except of _save_catalog and _save_issued_records.
\* ok tells whether open(..., 'w') succeeds; when it raises IOError the file
\* is left as it was and the error is printed.
\* ------------------------------------------------------------------------
SaveCatalog(cat, prefix, ok) ==
  IF ok
  THEN /\ catalogFile' = FileOf(CatalogLines(cat))
       /\ out' = prefix \o <<"CatalogSaved">>
  ELSE /\ catalogFile' = catalogFile
       /\ out' = prefix \o <<"ErrorSavingCatalog">>

\* a variant that tries the write again after the failure
SaveIssuedRecords_retried(recs, prefix, ok) ==
  /\ \E ls \in IssuedLinesChoices(recs) : issuedFile' = FileOf(ls)
  /\ out' = prefix \o (IF ok THEN <<"IssuedRecordsSaved">>
                        ELSE <<"ErrorSavingIssuedRecords">>)

SaveIssuedRecords(recs, prefix, ok) ==
  IF ok
  THEN /\ \E ls \in IssuedLinesChoices(recs) : issuedFile' = FileOf(ls)
       /\ out' = prefix \o <<"IssuedRecordsSaved">>
  ELSE /\ issuedFile' = issuedFile
       /\ out' = prefix \o <<"ErrorSavingIssuedRecords">>

\* ------------------------------------------------------------------------
\* Initial states
\* ------------------------------------------------------------------------
\* Library.__init__ : the in-memory state built from the two files
Loaded ==
  /\ catalog = load_catalog(catalogFile)
  /\ available_book_ids = CatalogIds(catalog)
  /\ issued_records = load_issued_records(issuedFile)

\* First run of main() in a directory that holds neither file.
Init ==
  /\ catalogFile = NoFile
  /\ issuedFile = NoFile
  /\ Loaded
  /\ pc = "menu"
  /\ out = <<>>
  /\ shown = <<>>
  /\ runs = 1

\* ------------------------------------------------------------------------
\* Menu actions
\* ------------------------------------------------------------------------
\* choice '1': add_book() starts and prompts for the book id.  The user
\* chooses it only while there is an id left to type that is not in use:
\* the prompt loop of add_book is left in no other way.
AddBookStart ==
  /\ pc = "menu"
  /\ \E b \in BookIdInputs : upper(strip(b)) \notin available_book_ids
  /\ pc' = "add_book"
  /\ out' = <<>>
  /\ shown' = <<>>
  /\ UNCHANGED <<catalog, available_book_ids, issued_records,
                 catalogFile, issuedFile, runs>>

\* add_book: an id that already exists is reported and asked for again
AddBookDuplicate(raw_id) ==
  LET book_id == upper(strip(raw_id)) IN
  /\ pc = "add_book"
  /\ Len(out) < MaxRetry
  /\ id_exists(available_book_ids, book_id)
  /\ out' = Append(out, "DuplicateId")
  /\ UNCHANGED <<catalog, available_book_ids, issued_records,
                 catalogFile, issuedFile, pc, shown, runs>>

\* add_book: a new id leaves the loop; title and author are read, the book
\* is appended and the catalog saved
AddBookAccept(raw_id, raw_title, raw_author, ok) ==
  LET book_id == upper(strip(raw_id))
      new_book == [id |-> book_id,
                   title |-> title(strip(raw_title)),
                   author |-> title(strip(raw_author))]
  IN
  /\ pc = "add_book"
  /\ ~id_exists(available_book_ids, book_id)
  /\ catalog' = append_book(catalog, new_book)
  /\ available_book_ids' = add_id(available_book_ids, book_id)
  /\ SaveCatalog(catalog', out \o <<"BookAdded">>, ok)
  /\ pc' = "menu"
  /\ UNCHANGED <<issued_records, issuedFile, shown, runs>>

\* choice '2': issue_book()
IssueBook(raw_student, raw_book, ok) ==
  LET student_id == upper(strip(raw_student))
      book_id == upper(strip(raw_book))
  IN
  /\ pc = "menu"
  /\ shown' = <<>>
  /\ IF ~book_exists(catalog, book_id)
     THEN /\ out' = <<"BookNotFound">>
          /\ UNCHANGED <<issued_records, issuedFile>>
     ELSE IF is_issued(issued_records, student_id, book_id)
     THEN /\ out' = <<"BookAlreadyIssued">>
          /\ UNCHANGED <<issued_records, issuedFile>>
     ELSE /\ issued_records' = issue_records(issued_records, student_id, book_id)
          /\ SaveIssuedRecords(issued_records', <<"BookIssued">>, ok)
  /\ UNCHANGED <<catalog, available_book_ids, catalogFile, pc, runs>>

\* choice '3': return_book()
ReturnBook(raw_student, raw_book, ok) ==
  LET student_id == upper(strip(raw_student))
      book_id == upper(strip(raw_book))
  IN
  /\ pc = "menu"
  /\ shown' = <<>>
  /\ IF ~HasKey(issued_records, student_id)
     THEN /\ out' = <<"StudentHasNoRecords">>
          /\ UNCHANGED <<issued_records, issuedFile>>
     ELSE IF issued_to(issued_records, student_id, book_id)
     THEN /\ issued_records' = return_records(issued_records, student_id, book_id)
          /\ SaveIssuedRecords(issued_records', <<"BookReturned">>, ok)
     ELSE /\ out' = <<"BookNotIssuedToStudent">>
          /\ UNCHANGED <<issued_records, issuedFile>>
  /\ UNCHANGED <<catalog, available_book_ids, catalogFile, pc, runs>>

\* choice '4': display_available_books()
DisplayAvailableBooks ==
  LET avail == available_books(catalog, issued_records) IN
  /\ pc = "menu"
  /\ IF catalog = <<>>
     THEN out' = <<"CatalogEmpty">> /\ shown' = <<>>
     ELSE IF avail = <<>>
     THEN out' = <<"AllIssued">> /\ shown' = <<>>
     ELSE /\ out' = <<"TotalAvailable">>
          /\ shown' = [i \in DOMAIN avail |-> [n |-> i, book |-> avail[i]]]
  /\ UNCHANGED <<catalog, available_book_ids, issued_records,
                 catalogFile, issuedFile, pc, runs>>

\* a variant in which an unknown choice ends the loop
InvalidChoice_ends_loop ==
  /\ pc = "menu"
  /\ pc' = "exited"
  /\ out' = <<"InvalidChoice">>
  /\ shown' = <<>>
  /\ UNCHANGED <<catalog, available_book_ids, issued_records,
                 catalogFile, issuedFile, runs>>

\* any other choice
InvalidChoice ==
  /\ pc = "menu"
  /\ out' = <<"InvalidChoice">>
  /\ shown' = <<>>
  /\ UNCHANGED <<catalog, available_book_ids, issued_records,
                 catalogFile, issuedFile, pc, runs>>

\* choice '5': the loop breaks and the process ends
Exit ==
  /\ pc = "menu"
  /\ pc' = "exited"
  /\ out' = <<"Exiting">>
  /\ shown' = <<>>
  /\ UNCHANGED <<catalog, available_book_ids, issued_records,
                 catalogFile, issuedFile, runs>>

\* the program is started again: main() constructs a new Library()
Startup ==
  /\ pc = "exited"
  /\ runs < MaxRuns
  /\ catalog' = load_catalog(catalogFile)
  /\ available_book_ids' = CatalogIds(catalog')
  /\ issued_records' = load_issued_records(issuedFile)
  /\ pc' = "menu"
  /\ out' = <<>>
  /\ shown' = <<>>
  /\ runs' = runs + 1
  /\ UNCHANGED <<catalogFile, issuedFile>>

\* One step of the program.  CatalogWrites and IssuedWrites are the outcomes
\* that opening books.txt and issued_books.txt for writing may have in this
\* step.
Step(CatalogWrites, IssuedWrites) ==
  \/ AddBookStart
  \/ \E b \in BookIdInputs : AddBookDuplicate(b)
  \/ \E b \in BookIdInputs, t \in TitleInputs, a \in AuthorInputs,
        ok \in CatalogWrites : AddBookAccept(b, t, a, ok)
  \/ \E s \in StudentIdInputs, b \in BookIdInputs, ok \in IssuedWrites :
        IssueBook(s, b, ok)
  \/ \E s \in StudentIdInputs, b \in BookIdInputs, ok \in IssuedWrites :
        ReturnBook(s, b, ok)
  \/ DisplayAvailableBooks
  \/ InvalidChoice
  \/ Exit
  \/ Startup

\* every file write succeeds
Next == Step({TRUE}, {TRUE})

Spec == Init /\ [][Next]_vars

\* ------------------------------------------------------------------------
\* Runs that start from files left by earlier use
\* ------------------------------------------------------------------------
sB1 == <<"B", "1">>
sB2 == <<"B", "2">>
sS1 == <<"S", "1">>
sS2 == <<"S", "2">>
sPG == <<"P", " ", "G">>
sGB == <<"G", " ", "B">>
bar == <<"|">>
colon == <<":">>
eol == <<NL>>

CatalogFileInputs ==
  { NoFile,
    \* two well-formed lines with the same id
    FileOf(<< sB1 \o bar \o sPG \o bar \o sGB \o eol,
              sB1 \o bar \o sGB \o bar \o sPG \o eol >>),
    \* padded fields, and a line of two fields
    FileOf(<< <<" ">> \o sB1 \o <<" ">> \o bar \o <<" ">> \o sPG \o bar
                \o sGB \o <<" ">> \o eol,
              sB1 \o bar \o sPG \o eol,
              sB2 \o bar \o sPG \o bar \o sGB \o eol >>) }

IssuedFileInputs ==
  { NoFile,
    \* no space after the colon
    FileOf(<< sS1 \o colon \o sB1 \o eol >>),
    \* lines of one and of three fields, and a student listed twice
    FileOf(<< sS1 \o eol,
              sS2 \o colon \o sB1 \o colon \o sB2 \o eol,
              sS1 \o colon \o sB2 \o eol,
              sS1 \o colon \o sB1 \o eol >>) }

InitLoad ==
  /\ catalogFile \in CatalogFileInputs
  /\ issuedFile \in IssuedFileInputs
  /\ Loaded
  /\ pc = "menu"
  /\ out = <<>>
  /\ shown = <<>>
  /\ runs = 1

SpecLoad == InitLoad /\ [][Next]_vars

\* ------------------------------------------------------------------------
\* Runs in which a file write may fail
\* ------------------------------------------------------------------------
NextIO == Step(BOOLEAN, BOOLEAN)

SpecIO == Init /\ [][NextIO]_vars

\* one process run, from the start of main() to choice '5', in which any
\* write may fail
NextRunIO ==
  \/ AddBookStart
  \/ \E b \in BookIdInputs : AddBookDuplicate(b)
  \/ \E b \in BookIdInputs, t \in TitleInputs, a \in AuthorInputs,
        ok \in BOOLEAN : AddBookAccept(b, t, a, ok)
  \/ \E s \in StudentIdInputs, b \in BookIdInputs, ok \in BOOLEAN :
        IssueBook(s, b, ok)
  \/ \E s \in StudentIdInputs, b \in BookIdInputs, ok \in BOOLEAN :
        ReturnBook(s, b, ok)
  \/ DisplayAvailableBooks
  \/ InvalidChoice
  \/ Exit

SpecRunIO == Init /\ [][NextRunIO]_vars

\* books.txt cannot be opened for writing, issued_books.txt can
NextCatalogReadOnly == Step({FALSE}, {TRUE})

SpecCatalogReadOnly == Init /\ [][NextCatalogReadOnly]_vars

\* ------------------------------------------------------------------------
\* Properties
\* ------------------------------------------------------------------------
\* dict equality: the same keys, and the same set under each key
SameDict(r1, r2) ==
  /\ Keys(r1) = Keys(r2)
  /\ \A s \in Keys(r1) : Get(r1, s) = Get(r2, s)

\* C1: saving the catalog and the issued records and loading them back
\* yields the catalog that was saved and an issued_records dict equal to the
\* one saved, whichever order the sets are written in.
C1_SaveLoadRoundTrip ==
  /\ load_catalog(FileOf(CatalogLines(catalog))) = catalog
  /\ \A ls \in IssuedLinesChoices(issued_records) :
        SameDict(load_issued_records(FileOf(ls)), issued_records)

\* No two students' sets share a book id.
ExclusiveIssuance(recs) ==
  \A i, j \in DOMAIN recs : i # j => recs[i].books \cap recs[j].books = {}

\* C2: within the first process run, started with no files, each book id
\* is in at most one student's issued set.
C2_ExclusiveIssuance == runs = 1 => ExclusiveIssuance(issued_records)

\* C2 witness: a second issue of a held book has just been refused while two
\* students hold books.
C2_Witness ==
  /\ runs = 1
  /\ out = <<"BookAlreadyIssued">>
  /\ Len(issued_records) = 2

\* C3: across operations and restarts, every issued book id is the id of a
\* catalog book.
C3_IssuedIdsInCatalog == issued_book_ids(issued_records) \subseteq CatalogIds(catalog)

\* No two catalog entries carry the same id.
UniqueIds(cat) == \A i, j \in DOMAIN cat : i # j => cat[i].id # cat[j].id

\* C4 as stated: whatever well-formed lines the catalog file holds, no two
\* catalog entries have the same id.
C4_CatalogIdsUnique == UniqueIds(catalog)

\* C4 amended: uniqueness is kept, not established: a catalog whose ids are
\* pairwise distinct still has pairwise distinct ids after every step
\* (add, issue, return, exit and reload of the file the program wrote).
C4_UniquenessPreserved == [][UniqueIds(catalog) => UniqueIds(catalog')]_vars

\* C4 witness: after a refused duplicate id the request has added a second
\* book, and the two ids differ.
C4_Witness ==
  /\ out = <<"DuplicateId", "BookAdded", "CatalogSaved">>
  /\ Len(catalog) = 2
  /\ UniqueIds(catalog)

C6_UnknownBookRejected ==
  [][\A s \in StudentIdInputs, b \in BookIdInputs :
       (/\ upper(strip(b)) \notin CatalogIds(catalog)
        /\ \E ok \in BOOLEAN : IssueBook(s, b, ok))
       => /\ out' = <<"BookNotFound">>
          /\ issued_records' = issued_records
          /\ issuedFile' = issuedFile]_vars

\* C6 witness: the refusal has happened with a catalog that holds a book and
\* with no issued record.
C6_Witness ==
  /\ out = <<"BookNotFound">>
  /\ catalog # <<>>
  /\ issued_records = <<>>
  /\ ~issuedFile.exists

\* the id typed at the prompt of add_book is handled by one of the two
\* branches of the loop
IdEntered(b) ==
  \/ AddBookDuplicate(b)
  \/ \E t \in TitleInputs, a \in AuthorInputs, ok \in BOOLEAN :
        AddBookAccept(b, t, a, ok)

\* C7 as stated: an add_book request in which a duplicate id was reported
\* ends without a book having been appended.
C7_DuplicateEndsUnchanged ==
  [][(pc = "add_book" /\ pc' = "menu" /\ out # <<>> /\ out[1] = "DuplicateId")
       => /\ catalog' = catalog
          /\ available_book_ids' = available_book_ids
          /\ catalogFile' = catalogFile]_vars

\* C7 amended: an id already in available_book_ids is reported as
\* DuplicateId and leaves catalog, available_book_ids and the catalog file
\* unchanged, but does not end the request: the id is asked for again, and
\* the request ends only by appending one book under an id that was not in
\* available_book_ids.
C7_DuplicateReprompts ==
  [][/\ \A b \in BookIdInputs :
          (upper(strip(b)) \in available_book_ids /\ IdEntered(b))
          => /\ out' = Append(out, "DuplicateId")
             /\ pc' = "add_book"
             /\ catalog' = catalog
             /\ available_book_ids' = available_book_ids
             /\ catalogFile' = catalogFile
     /\ (pc = "add_book" /\ pc' = "menu")
          => /\ Len(catalog') = Len(catalog) + 1
             /\ SubSeq(catalog', 1, Len(catalog)) = catalog
             /\ catalog'[Len(catalog')].id \notin available_book_ids]_vars

\* C7 witness: a request that reported a duplicate id has ended by adding a
\* book.
C7_Witness ==
  /\ pc = "menu"
  /\ out = <<"DuplicateId", "BookAdded", "CatalogSaved">>

\* C8: return_book reports StudentHasNoRecords when the student is no key
\* and BookNotIssuedToStudent when the book is not in the student's set; in
\* both cases issued_records, the catalog and the issued-records file stay
\* as they were.
C8_ReturnRejected ==
  [][\A s \in StudentIdInputs, b \in BookIdInputs :
       LET student_id == upper(strip(s))
           book_id == upper(strip(b))
           Returning == \E ok \in BOOLEAN : ReturnBook(s, b, ok)
       IN  /\ (student_id \notin Keys(issued_records) /\ Returning)
                => /\ out' = <<"StudentHasNoRecords">>
                   /\ issued_records' = issued_records
                   /\ catalog' = catalog
                   /\ issuedFile' = issuedFile
           /\ (/\ student_id \in Keys(issued_records)
               /\ book_id \notin Get(issued_records, student_id)
               /\ Returning)
                => /\ out' = <<"BookNotIssuedToStudent">>
                   /\ issued_records' = issued_records
                   /\ catalog' = catalog
                   /\ issuedFile' = issuedFile]_vars

\* C8 witness: a return was refused as BookNotIssuedToStudent while two
\* students hold one book each, so the book asked for is either unissued or
\* held by the other student.
C8_Witness ==
  /\ out = <<"BookNotIssuedToStudent">>
  /\ Len(issued_records) = 2
  /\ Cardinality(issued_book_ids(issued_records)) = 2

\* the student id and the text of the book-id list of a line of the
\* issued-records file, as written by _save_issued_records
LineStudent(line) == strip(split(strip(line), ":")[1])

LineBookList(line) ==
  LET text == strip(line)
      k == CHOOSE i \in 1..Len(text) : text[i] = ":" /\ \A j \in 1..(i - 1) : text[j] # ":"
  IN  strip(SubSeq(text, k + 1, Len(text)))

C10_IssueReturnRoundTrip ==
  \A s \in StudentIdInputs, b \in BookIdInputs :
    LET student_id == upper(strip(s))
        book_id == upper(strip(b))
        issued == issue_records(issued_records, student_id, book_id)
        returned == return_records(issued, student_id, book_id)
    IN  (/\ book_exists(catalog, book_id)
         /\ ~is_issued(issued_records, student_id, book_id))
        => /\ HasKey(issued, student_id)
           /\ issued_to(issued, student_id, book_id)
           /\ returned = issued_records
           /\ available_books(catalog, returned)
                = available_books(catalog, issued_records)
           /\ available_books(catalog, issued)
                # available_books(catalog, issued_records)

\* C10 witness: a book was issued and returned, the student's entry is gone
\* again and the book is available again.
C10_Witness ==
  /\ out = <<"BookReturned", "IssuedRecordsSaved">>
  /\ issued_records = <<>>
  /\ catalog # <<>>
  /\ available_books(catalog, issued_records) = catalog

\* how many entries of the sequence of books carry the id
RECURSIVE CountId(_, _)
CountId(books, book_id) ==
  IF books = <<>> THEN 0
  ELSE (IF Head(books).id = book_id THEN 1 ELSE 0) + CountId(Tail(books), book_id)

\* the book id is in some student's set
InSomeSet(recs, book_id) == \E i \in DOMAIN recs : book_id \in recs[i].books

\* the books of the numbered listing printed by display_available_books
ShownBooks == [i \in DOMAIN shown |-> shown[i].book]

\* C11: every book that add_book has put in the catalog is among the
\* available books exactly once while its id is in no student's set and not
\* at all while it is in one; a listing just printed shows it that many times.
C11_ListedOnceUnlessIssued ==
  \A i \in DOMAIN catalog :
    LET book_id == catalog[i].id
        expected == IF InSomeSet(issued_records, book_id) THEN 0 ELSE 1
    IN  /\ CountId(available_books(catalog, issued_records), book_id) = expected
        /\ out = <<"TotalAvailable">> => CountId(ShownBooks, book_id) = expected
        /\ out = <<"AllIssued">> => expected = 0

\* C11 witness: of two catalog books one is issued, and the listing just
\* printed shows the other one only.
C11_Witness ==
  /\ out = <<"TotalAvailable">>
  /\ Len(catalog) = 2
  /\ Len(shown) = 1
  /\ InSomeSet(issued_records, catalog[1].id)
  /\ shown[1].book = catalog[2]

\* the catalog books whose id is in no student's set, in catalog order
RECURSIVE NotIssued(_, _)
NotIssued(cat, recs) ==
  IF cat = <<>> THEN <<>>
  ELSE (IF InSomeSet(recs, Head(cat).id) THEN <<>> ELSE <<Head(cat)>>)
         \o NotIssued(Tail(cat), recs)

\* C12: display_available_books reports CatalogEmpty exactly when the
\* catalog has no entry; otherwise it reports AllIssued exactly when no
\* catalog book is unissued, and else lists the unissued catalog books in
\* catalog order, numbered from 1.  With an empty issued_records every
\* catalog book is listed.
C12_DisplayResult ==
  [][DisplayAvailableBooks =>
       LET sub == NotIssued(catalog, issued_records) IN
       /\ (out' = <<"CatalogEmpty">>) <=> (catalog = <<>>)
       /\ catalog # <<>> => ((out' = <<"AllIssued">>) <=> (sub = <<>>))
       /\ (catalog # <<>> /\ sub # <<>>)
            => /\ out' = <<"TotalAvailable">>
               /\ Len(shown') = Len(sub)
               /\ \A i \in DOMAIN sub :
                    shown'[i].n = i /\ shown'[i].book = sub[i]
       /\ (catalog # <<>> /\ issued_records = <<>>)
            => /\ out' = <<"TotalAvailable">>
               /\ [i \in DOMAIN shown' |-> shown'[i].book] = catalog]_vars

\* C12 witness: with two catalog books and no issued record the listing
\* shows both, numbered 1 and 2.
C12_Witness ==
  /\ out = <<"TotalAvailable">>
  /\ issued_records = <<>>
  /\ Len(catalog) = 2
  /\ Len(shown) = 2
  /\ shown[1].n = 1
  /\ shown[2].n = 2

\* the last message printed by the operation
LastOut == IF out = <<>> THEN "" ELSE out[Len(out)]

\* the line is exactly "<sid>: <ids joined by commas>\n" for the entry, each
\* id of the set once
LineCarries(line, entry) ==
  LET n == Len(entry.sid) IN
  /\ Len(line) >= n + 3
  /\ SubSeq(line, 1, n) = entry.sid
  /\ line[n + 1] = ":"
  /\ line[n + 2] = " "
  /\ line[Len(line)] = NL
  /\ LET ids == split(SubSeq(line, n + 3, Len(line) - 1), ",")
     IN  Range(ids) = entry.books /\ Len(ids) = Cardinality(entry.books)

\* the line is exactly "<id>|<title>|<author>\n" for the book
LineIsBook(line, book) ==
  /\ line # <<>>
  /\ line[Len(line)] = NL
  /\ split(SubSeq(line, 1, Len(line) - 1), "|")
       = <<book.id, book.title, book.author>>

\* C13: a mutating operation always ends with its save; when the catalog
\* save succeeds the catalog file holds one line per catalog book, in order,
\* and when the issued-records save succeeds the file holds one line per key
\* with that student's whole set, whatever earlier saves failed.
C13_FileEqualsMemoryAfterSave ==
  /\ ((out # <<>> /\ out[1] \in {"BookAdded", "BookIssued", "BookReturned"})
        \/ (Len(out) > 1 /\ out[Len(out) - 1] = "BookAdded"))
       => LastOut \in {"CatalogSaved", "ErrorSavingCatalog",
                       "IssuedRecordsSaved", "ErrorSavingIssuedRecords"}
  /\ LastOut = "CatalogSaved"
       => /\ catalogFile.exists
          /\ Len(catalogFile.lines) = Len(catalog)
          /\ \A i \in DOMAIN catalog : LineIsBook(catalogFile.lines[i], catalog[i])
  /\ LastOut = "IssuedRecordsSaved"
       => /\ issuedFile.exists
          /\ Len(issuedFile.lines) = Len(issued_records)
          /\ \A i \in DOMAIN issued_records :
               LineCarries(issuedFile.lines[i], issued_records[i])

\* C13 witness: the first catalog save failed, the second add_book saved,
\* and the file holds both books.
C13_Witness ==
  /\ LastOut = "CatalogSaved"
  /\ Len(catalog) = 2
  /\ Len(catalogFile.lines) = 2
  /\ issued_records # <<>>
  /\ ~issuedFile.exists

\* C14: when the write of add_book, issue_book or return_book fails, the
\* error is printed once, the file is left as it was, the book stays
\* appended or the id stays added or removed, and the menu is shown again.
C14_WriteFailureKept ==
  [][/\ \A b \in BookIdInputs, t \in TitleInputs, a \in AuthorInputs :
          AddBookAccept(b, t, a, FALSE)
          => /\ Len(SelectSeq(out', LAMBDA m : m = "ErrorSavingCatalog")) = 1
             /\ catalogFile' = catalogFile
             /\ Len(catalog') = Len(catalog) + 1
             /\ catalog'[Len(catalog')].id = upper(strip(b))
             /\ upper(strip(b)) \in available_book_ids'
             /\ pc' = "menu"
     /\ \A s \in StudentIdInputs, b \in BookIdInputs :
          LET student_id == upper(strip(s))
              book_id == upper(strip(b))
          IN  /\ (IssueBook(s, b, FALSE) /\ out'[1] = "BookIssued")
                   => /\ out' = <<"BookIssued", "ErrorSavingIssuedRecords">>
                      /\ issuedFile' = issuedFile
                      /\ student_id \in Keys(issued_records')
                      /\ book_id \in Get(issued_records', student_id)
                      /\ pc' = "menu"
              /\ (ReturnBook(s, b, FALSE) /\ out'[1] = "BookReturned")
                   => /\ out' = <<"BookReturned", "ErrorSavingIssuedRecords">>
                      /\ issuedFile' = issuedFile
                      /\ book_id \in Get(issued_records, student_id)
                      /\ ~InSomeSet(issued_records', book_id)
                      /\ pc' = "menu"]_vars

\* C14 witness: an issue whose save failed is in memory and not in the
\* file, and the program is back at the menu.
C14_Witness ==
  /\ out = <<"BookIssued", "ErrorSavingIssuedRecords">>
  /\ issued_records # <<>>
  /\ ~issuedFile.exists
  /\ pc = "menu"

\* the messages the spec calls errors
ErrorMessages ==
  {"DuplicateId", "BookNotFound", "BookAlreadyIssued", "StudentHasNoRecords",
   "BookNotIssuedToStudent", "InvalidChoice", "ErrorSavingCatalog",
   "ErrorSavingIssuedRecords"}

IsPrefix(s, t) == Len(s) <= Len(t) /\ SubSeq(t, 1, Len(s)) = s

\* C16: in every step, restarts included, the catalog before the step is a
\* prefix of the catalog after it, and the catalog grows only in the step
\* that ends add_book with "BookAdded", by one book at the end.
C16_CatalogAppendOnly ==
  [][/\ IsPrefix(catalog, catalog')
     /\ catalog' # catalog
          => /\ pc = "add_book"
             /\ pc' = "menu"
             /\ Len(catalog') = Len(catalog) + 1
             /\ out'[Len(out) + 1] = "BookAdded"]_vars

\* C16 witness: a book was appended in the second run to a catalog that was
\* read back from the file.
C16_Witness ==
  /\ runs = 2
  /\ Len(catalog) = 2
  /\ out = <<"BookAdded", "CatalogSaved">>

\* C17: available_book_ids is the set of the ids of the catalog's books,
\* after a load of any file and after every operation.
C17_AvailableIdsMirrorCatalog ==
  available_book_ids = {catalog[i].id : i \in DOMAIN catalog}

\* C17 witness: a book has been added to a catalog loaded with two books of
\* the same id.
C17_Witness ==
  /\ Len(catalog) = 3
  /\ Cardinality(available_book_ids) = 2
  /\ LastOut = "CatalogSaved"

\* C18: a restart after saved issues keeps them: every id that was in a
\* student's set when the program ended is, after the reload, still in that
\* student's set (return_book succeeds), issued for everyone (issue_book
\* reports BookAlreadyIssued), and not among the available books.
C18_IssuanceSurvivesRestart ==
  [][(pc = "exited" /\ pc' = "menu")
       => \A i \in DOMAIN issued_records :
            \A b \in issued_records[i].books \cap CatalogIds(catalog) :
              /\ issued_to(issued_records', issued_records[i].sid, b)
              /\ \A t \in StudentIdInputs :
                   is_issued(issued_records', upper(strip(t)), b)
              /\ \A k \in DOMAIN available_books(catalog', issued_records') :
                   available_books(catalog', issued_records')[k].id # b]_vars

\* the six results of issue_book and return_book
IssueReturnMessages ==
  {"BookNotFound", "BookAlreadyIssued", "BookIssued",
   "StudentHasNoRecords", "BookReturned", "BookNotIssuedToStudent"}

\* C19: issue_book and return_book leave the catalog, available_book_ids
\* and the catalog file alone; add_book leaves issued_records and its file
\* alone; the listing and an invalid choice change nothing in memory or on
\* file; an issue or return for student s leaves every other student's set
\* as it was.
C19_Frame ==
  [][/\ (pc = "menu" /\ out' # <<>> /\ out'[1] \in IssueReturnMessages)
          => /\ catalog' = catalog
             /\ available_book_ids' = available_book_ids
             /\ catalogFile' = catalogFile
     /\ (pc = "add_book" \/ pc' = "add_book")
          => /\ issued_records' = issued_records
             /\ issuedFile' = issuedFile
     /\ (pc = "menu" /\ out' # <<>>
           /\ out'[1] \in {"CatalogEmpty", "AllIssued", "TotalAvailable",
                           "InvalidChoice"})
          => UNCHANGED <<catalog, available_book_ids, issued_records,
                         catalogFile, issuedFile>>
     /\ \A s \in StudentIdInputs, b \in BookIdInputs :
          (\E ok \in BOOLEAN : IssueBook(s, b, ok) \/ ReturnBook(s, b, ok))
          => \A t \in (Keys(issued_records) \cup Keys(issued_records'))
                        \ {upper(strip(s))} :
               /\ HasKey(issued_records, t)
               /\ HasKey(issued_records', t)
               /\ Get(issued_records', t) = Get(issued_records, t)]_vars

\* C19 witness: a second student has been issued a book while the first
\* student holds one.
C19_Witness ==
  /\ Len(issued_records) = 2
  /\ out[1] = "BookIssued"

\* the number of times the character c is in the line
RECURSIVE CountChar(_, _)
CountChar(line, c) ==
  IF line = <<>> THEN 0
  ELSE (IF Head(line) = c THEN 1 ELSE 0) + CountChar(Tail(line), c)

\* the lines of the file with exactly n separators, in file order
WellFormed(f, c, n) == SelectSeq(f.lines, LAMBDA l : CountChar(l, c) = n)

\* the state has just been loaded from the files
JustLoaded == pc = "menu" /\ out = <<>>

\* C20: after a load, a missing file has given the empty catalog or the
\* empty mapping; the catalog is the sequence of the lines with three
\* fields, in file order, each with its fields trimmed; the mapping has the
\* students of the lines with two fields, each with the ids of the last such
\* line of that student; the other lines are left out.
C20_TolerantLoad ==
  JustLoaded =>
    LET cl == WellFormed(catalogFile, "|", 2)
        il == WellFormed(issuedFile, ":", 1)
        student(l) == strip(split(strip(l), ":")[1])
        ids(l) == Range(split(split(strip(l), ":")[2], ","))
    IN  /\ ~catalogFile.exists => catalog = <<>>
        /\ ~issuedFile.exists => issued_records = <<>>
        /\ Len(catalog) = Len(cl)
        /\ \A i \in DOMAIN cl :
             LET parts == split(strip(cl[i]), "|")
             IN  catalog[i] = [id |-> strip(parts[1]),
                               title |-> strip(parts[2]),
                               author |-> strip(parts[3])]
        /\ Keys(issued_records) = {student(il[i]) : i \in DOMAIN il}
        /\ \A i \in DOMAIN il :
             (\A j \in DOMAIN il : j > i => student(il[j]) # student(il[i]))
             => Get(issued_records, student(il[i])) = ids(il[i])

\* C20 witness: the catalog file with a line of two fields and the
\* issued-records file with lines of one and three fields have been loaded.
C20_Witness ==
  /\ JustLoaded
  /\ runs = 1
  /\ Len(catalogFile.lines) = 3
  /\ Len(catalog) = 2
  /\ Len(issuedFile.lines) = 4
  /\ issued_records = <<[sid |-> sS1, books |-> {sB1}]>>

====
